---- MODULE Spec2Model ----
(***************************************************************************)
(* The decode loop of DecodeStream (src/src/DecodeStream/DecodeStream.cpp, *)
(* main, lines 134-542) as a state machine.  One step of the model is one  *)
(* pass through the body of `while (true)`: the stream check at the loop   *)
(* head, the read of one data unit and the whole `switch (du.type)` case   *)
(* that handles it.                                                        *)
(*                                                                         *)
(* The classes behind the calls of main (DataUnit, SequenceHeader,         *)
(* PicturePreamble, Slices, Frame, the stream manipulators) are not part   *)
(* of the modelled source.  What they return to main is an input of the    *)
(* step: the data unit's type, the header or preamble fields parsed from   *)
(* its payload, the state of du.stream() after the slices were read and    *)
(* the state of outStream after a write.  Three things are taken from      *)
(* their use in main: a preamble's slice_bytes has a positive denominator  *)
(* (line 231 divides by it); a read at the end of the input leaves du of   *)
(* no known type, so that the default case runs before the loop head sees  *)
(* the failed stream; and the calls return rather than throw.              *)
(*                                                                         *)
(* Spec draws the payloads from small domains and covers every case of     *)
(* the switch; SpecBitDepth and SpecSliceBytes run the same loop on        *)
(* SEQUENCE_HEADER and LD_PICTURE data units with wider numeric domains,   *)
(* SpecClip on pictures of both profiles with every bit depth.  SpecSync   *)
(* starts before the call of synchronise and follows the bytes of the      *)
(* input up to the parse code of each data unit.                           *)
(***************************************************************************)
EXTENDS Integers, Sequences, FiniteSets, TLC

(***************************************************************************)
(* Bounds of the model and the domains the inputs are drawn from.          *)
(***************************************************************************)
\* Number of data units one run reads from the input stream.
MaxUnits == 4

\* SequenceHeader fields (lines 189-195).
Heights == {2, 4}
Widths == {4}
ChromaFormats == {"CF420"}
BitDepths == {8, 10}

\* PicturePreamble fields (lines 227-231, 386-390).
SlicesX == {2}
SlicesY == {1}
Numerators == {3}
Denominators == {1, 2}
Kernels == {"LEGALL"}
Depths == {1}
SliceScalars == {1}

\* The wider domains of the two specifications that check the arithmetic
\* of main: bit depths 1..MaxBitDepth (SpecBitDepth); slice counts
\* 1..MaxSlices and slice_bytes fractions up to MaxNumerator/MaxDenominator
\* (SpecSliceBytes).
MaxBitDepth == 16
MaxSlices == 2
MaxNumerator == 3
MaxDenominator == 2

\* The input as bytes (SpecSync): up to MaxJunk bytes in front of a stream
\* of up to MaxSyncUnits data units.
MaxJunk == 4
MaxSyncUnits == 2

\* Value of the locals main declares without an initialiser (lines 150-155);
\* main assigns each of them before it reads it.
Uninit == -1

\* enum values used by main.
SEQUENCE_HEADER == "SEQUENCE_HEADER"
END_OF_SEQUENCE == "END_OF_SEQUENCE"
AUX_DATA == "AUX_DATA"
PADDING == "PADDING"
LD_PICTURE == "LD_PICTURE"
HQ_PICTURE == "HQ_PICTURE"
UNKNOWN_DATA_UNIT == "UNKNOWN_DATA_UNIT"

INDICES == "INDICES"
QUANTISED == "QUANTISED"
TRANSFORM == "TRANSFORM"
DECODED == "DECODED"
Outputs == {INDICES, QUANTISED, TRANSFORM, DECODED}

UNKNOWN == "UNKNOWN"

EXIT_SUCCESS == "EXIT_SUCCESS"
EXIT_FAILURE == "EXIT_FAILURE"
Running == "Running"
\* main did not return: operator-> of a scoped_ptr that owns nothing ended
\* the process, by BOOST_ASSERT (SIGABRT) or, with assertions compiled out,
\* by the access through the null pointer (SIGSEGV).
SIGABRT == "SIGABRT"
SIGSEGV == "SIGSEGV"
NullDereference == {SIGABRT, SIGSEGV}

VARIABLES
  verbose, output,          \* params.verbose, params.output (lines 73-74)
  inStream,                 \* TRUE while inStream is good
  outStream,                \* TRUE while outStream is good
  written,                  \* the items inserted into outStream, in order
  frame, pic,               \* lines 134-135
  have_seq_hdr, height, width, chromaFormat, bytes,
  lumaDepth, chromaDepth, interlaced, topFieldFirst,   \* lines 141-149
  kernel, waveletDepth, ySlices, xSlices,
  compressedBytes, sliceScalar,                        \* lines 150-155
  outFrame,                 \* line 156
  du,                       \* the data unit read by this pass (line 165)
  inBuffer,                 \* the bytes of the input from the read position
                            \* on, where the model follows them (SpecSync)
  pc,                       \* "loop": at the loop head; "exit": main is over
  exitStatus,               \* what main returned
  nUnits,                   \* data units read so far
  did,                      \* what the last pass did (history of the pass)
  copied                    \* pictures that reached the copy to the output
                            \* frame, as fields and as frames (history)

params == <<verbose, output>>
seqState == <<have_seq_hdr, height, width, chromaFormat, bytes,
              lumaDepth, chromaDepth, interlaced, topFieldFirst>>
picParams == <<kernel, waveletDepth, ySlices, xSlices, compressedBytes, sliceScalar>>
assembly == <<frame, pic, outFrame>>
vars == <<verbose, output, inStream, outStream, written, frame, pic,
          have_seq_hdr, height, width, chromaFormat, bytes, lumaDepth,
          chromaDepth, interlaced, topFieldFirst, kernel, waveletDepth,
          ySlices, xSlices, compressedBytes, sliceScalar, outFrame, du,
          inBuffer, pc, exitStatus, nUnits, did, copied>>

\* The payloads a SEQUENCE_HEADER data unit can carry.
SequenceHeaders ==
  [height : Heights, width : Widths, chromaFormat : ChromaFormats,
   interlace : BOOLEAN, topFieldFirst : BOOLEAN, bitdepth : BitDepths]

\* The payloads a picture data unit can carry; an LD preamble reads
\* slice_bytes, an HQ preamble reads slice_size_scalar.
PicturePreambles ==
  [wavelet_kernel : Kernels, depth : Depths, slices_x : SlicesX,
   slices_y : SlicesY, numerator : Numerators, denominator : Denominators,
   slice_size_scalar : SliceScalars]

\* The payloads of SpecBitDepth: one frame format, every bit depth.
BitDepthHeaders ==
  [height : {4}, width : {4}, chromaFormat : {"CF420"}, interlace : BOOLEAN,
   topFieldFirst : {TRUE}, bitdepth : 1..MaxBitDepth]

\* The payloads of SpecSliceBytes: one frame format and bit depth, every
\* slice count and slice_bytes fraction.
SliceBytesHeaders ==
  [height : {4}, width : {4}, chromaFormat : {"CF420"}, interlace : BOOLEAN,
   topFieldFirst : {TRUE}, bitdepth : {8}]

SliceBytesPreambles ==
  [wavelet_kernel : Kernels, depth : Depths, slices_x : 1..MaxSlices,
   slices_y : 1..MaxSlices, numerator : 1..MaxNumerator,
   denominator : 1..MaxDenominator, slice_size_scalar : {1}]

LdPreambles == {p \in PicturePreambles : p.slice_size_scalar = 1}
HqPreambles == {p \in PicturePreambles : p.denominator = 1}

(***************************************************************************)
(* Pictures and frames, as far as main handles them.  A picture is known   *)
(* by its PictureFormat; a Frame by the format it was allocated with, the  *)
(* pictures that fill the rows of its first and of its second field, and   *)
(* the range it was last clipped to.                                       *)
(***************************************************************************)
PictureFormat(h, w, c) == [height |-> h, width |-> w, chroma |-> c]
NoPicture == PictureFormat(0, 0, UNKNOWN)
NoClip == [yMin |-> 0, yMax |-> 0, uvMin |-> 0, uvMax |-> 0]

\* boost::scoped_ptr<Frame> outFrame; owns nothing.
NullFrame ==
  [allocated |-> FALSE, format |-> NoPicture, interlaced |-> FALSE,
   topFieldFirst |-> FALSE, first |-> NoPicture, second |-> NoPicture,
   clip |-> NoClip]

\* new Frame(frameFormat, interlaced, topFieldFirst)
NewFrame(frameFormat, il, tff) ==
  [allocated |-> TRUE, format |-> frameFormat, interlaced |-> il,
   topFieldFirst |-> tff, first |-> NoPicture, second |-> NoPicture,
   clip |-> NoClip]

\* outFrame->firstField(outPicture)
firstField(f, outPicture) == [f EXCEPT !.first = outPicture]

\* outFrame->secondField(outPicture)
secondField(f, outPicture) == [f EXCEPT !.second = outPicture]

\* outFrame->frame(outPicture): the picture fills the rows of both fields.
frameOf(f, outPicture) ==
  [f EXCEPT !.first = outPicture, !.second = outPicture, !.clip = NoClip]

RECURSIVE pow(_, _)
\* utils::pow(base, exponent) for a non-negative exponent.
pow(b, e) == IF e <= 0 THEN 1 ELSE b * pow(b, e - 1)

\* outFrame->frame(clip(*outFrame, yMin, yMax, uvMin, uvMax))
clip(f, luma, chroma) ==
  [f EXCEPT !.clip = [yMin |-> -pow(2, luma - 1), yMax |-> pow(2, luma - 1) - 1,
                      uvMin |-> -pow(2, chroma - 1),
                      uvMax |-> pow(2, chroma - 1) - 1]]

(***************************************************************************)
(* The computations of main.                                               *)
(***************************************************************************)
\* if (seq_hdr.bitdepth == 8) bytes = 1; else bytes = 2;
BytesOf(bitdepth) == IF bitdepth = 8 THEN 1 ELSE 2

\* int / int of C++ on operands that are not negative.
IntDiv(a, b) == a \div b

\* Mutation of CompressedBytesOf: the quotient is rounded up.
CompressedBytesUp(p) ==
  (p.numerator * p.slices_y * p.slices_x + p.denominator - 1) \div p.denominator

\* compressedBytes = (numerator*slices_y*slices_x)/denominator
CompressedBytesOf(p) ==
  IntDiv(p.numerator * p.slices_y * p.slices_x, p.denominator)

\* pictureBytes = (interlaced ? compressedBytes/2 : compressedBytes)
PictureBytesOf(il, cb) == IF il THEN IntDiv(cb, 2) ELSE cb

\* pictureHeight = ((interlaced) ? height/2 : height)
PictureHeightOf(il, h) == IF il THEN IntDiv(h, 2) ELSE h

\* case END_OF_SEQUENCE: the return is inside `if (verbose)`.
EndOfSequenceReturns == verbose

\* Mutation of CanDecode: the test of have_seq_hdr is left out.
CanDecodeAlways == TRUE

\* if (!have_seq_hdr) ... else { decode }
CanDecode == have_seq_hdr

\* Mutation of SliceReadFailed: the check of du.stream() is left out.
SliceReadNeverFailed(streamGood) == FALSE

\* if (!du.stream()) { ...; continue; }
SliceReadFailed(streamGood) == ~streamGood

\* if (!outStream) { ...; return EXIT_FAILURE; }
WriteFailed(streamGood) == ~streamGood

\* Mutation of AfterFirstField: the increment of pic is left out.
AfterFirstFieldSame(p) == p

\* pic++ after the first field was stored.
AfterFirstField(p) == p + 1

\* Mutation of AfterSecondField: pic is not set back.
AfterSecondFieldKeeps(p) == p

\* pic = 0 after the second field was stored.
AfterSecondField(p) == 0

\* The input where its bytes are not followed.  rest: the bytes from the
\* read position on; valid, skipped, overlap, dispatched: history (the
\* stream the junk was put in front of, the bytes synchronise skipped,
\* whether they ended in a part of the prefix, the types of the data units
\* read).
NoBuffer ==
  [rest |-> <<>>, valid |-> <<>>, junk |-> <<>>, skipped |-> 0,
   overlap |-> FALSE, dispatched |-> <<>>]

\* History of one pass: nothing done yet.
NoPass ==
  [preamble |-> "none", slice_bytes |-> [numerator |-> 0, denominator |-> 0],
   slices |-> "none", sliceBudget |-> Uninit, dequantiser |-> "none",
   decoded |-> FALSE, wrote |-> 0, fields |-> "none"]

(***************************************************************************)
(* Outcomes of a pass: the values main leaves in the variables a picture   *)
(* case can change.                                                        *)
(***************************************************************************)
\* `continue`, or `break` out of the switch: back to the loop head.
Continue(d) ==
  [frame |-> frame, pic |-> pic, outFrame |-> outFrame,
   outStream |-> outStream, written |-> written, pc |-> "loop",
   exitStatus |-> Running, did |-> d, copied |-> copied]

\* Mutation of WriteDiagnostic: the diagnostic write counts as a frame.
WriteDiagnosticCounting(item, wr, d) ==
  [Continue([d EXCEPT !.wrote = 1]) EXCEPT
     !.written = Append(written, item), !.frame = frame + 1]

\* Mutation of WriteDiagnostic: the check of outStream after the write is
\* left out and the loop goes on with the failed stream.
WriteDiagnosticUnchecked(item, wr, d) ==
  [Continue([d EXCEPT !.wrote = 1]) EXCEPT
     !.written = Append(written, item), !.outStream = ~WriteFailed(wr)]

\* outStream << item; if (!outStream) return EXIT_FAILURE; continue;
WriteDiagnostic(item, wr, d) ==
  IF WriteFailed(wr)
  THEN [Continue(d) EXCEPT !.written = Append(written, item), !.outStream = FALSE,
          !.pc = "exit", !.exitStatus = EXIT_FAILURE,
          !.did = [d EXCEPT !.wrote = 1]]
  ELSE [Continue(d) EXCEPT !.written = Append(written, item),
          !.did = [d EXCEPT !.wrote = 1]]

\* A use of outFrame while it owns nothing ends the process.
Dereference(ub, d) ==
  [Continue(d) EXCEPT !.pc = "exit", !.exitStatus = ub]

\* The item `outStream << *outFrame` inserts, with the manipulators set
\* before it (wordWidth, left_justified, offset_binary, bitDepth).
FrameItem(f) == [kind |-> DECODED, wordWidth |-> bytes]

DiagnosticItem(kind, wordWidth) == [kind |-> kind, wordWidth |-> wordWidth]

\* Mutation of ClipAndWrite: the frame is written as it was copied, the
\* clipping of lines 345-352 and 504-511 left out.
ClipAndWriteUnclipped(f, newPic, wr, d) ==
  LET item == FrameItem(f)
      d2 == [d EXCEPT !.wrote = 1]
  IN IF WriteFailed(wr)
     THEN [Continue(d2) EXCEPT !.pic = newPic, !.outFrame = f,
             !.written = Append(written, item), !.outStream = FALSE,
             !.pc = "exit", !.exitStatus = EXIT_FAILURE]
     ELSE [Continue(d2) EXCEPT !.pic = newPic, !.outFrame = f,
             !.written = Append(written, item), !.frame = frame + 1]

\* Mutation of ClipAndWrite: ++frame is reached after a failed write too.
ClipAndWriteCountsFailed(f, newPic, wr, d) ==
  LET clipped == clip(f, lumaDepth, chromaDepth)
      item == FrameItem(clipped)
      d2 == [d EXCEPT !.wrote = 1]
  IN IF WriteFailed(wr)
     THEN [Continue(d2) EXCEPT !.pic = newPic, !.outFrame = clipped,
             !.written = Append(written, item), !.outStream = FALSE,
             !.pc = "exit", !.exitStatus = EXIT_FAILURE, !.frame = frame + 1]
     ELSE [Continue(d2) EXCEPT !.pic = newPic, !.outFrame = clipped,
             !.written = Append(written, item), !.frame = frame + 1]

\* Lines 345-365 and 504-524: clip, write, check, ++frame.  newPic is the
\* value of pic and f the frame after the copy of the picture.
ClipAndWrite(f, newPic, wr, d) ==
  LET clipped == clip(f, lumaDepth, chromaDepth)
      item == FrameItem(clipped)
      d2 == [d EXCEPT !.wrote = 1]
  IN IF WriteFailed(wr)
     THEN [Continue(d2) EXCEPT !.pic = newPic, !.outFrame = clipped,
             !.written = Append(written, item), !.outStream = FALSE,
             !.pc = "exit", !.exitStatus = EXIT_FAILURE]
     ELSE [Continue(d2) EXCEPT !.pic = newPic, !.outFrame = clipped,
             !.written = Append(written, item), !.frame = frame + 1]

\* Lines 326-343 and 484-502: copy the picture to the output frame.
CopyToFrame(outPicture, wr, ub, d) ==
  IF interlaced
  THEN IF pic = 0
       THEN LET frameFormat == PictureFormat(height, width, chromaFormat)
                f == firstField(NewFrame(frameFormat, interlaced, topFieldFirst),
                                outPicture)
            IN [Continue([d EXCEPT !.fields = "first"]) EXCEPT
                  !.outFrame = f, !.pic = AfterFirstField(pic)]
       ELSE IF ~outFrame.allocated
            THEN Dereference(ub, d)
            ELSE ClipAndWrite(secondField(outFrame, outPicture),
                              AfterSecondField(pic), wr,
                              [d EXCEPT !.fields = "second"])
  ELSE IF ~outFrame.allocated
       THEN Dereference(ub, d)
       ELSE ClipAndWrite(frameOf(outFrame, outPicture), pic, wr,
                         [d EXCEPT !.fields = "frame"])

\* The copy, and the count of the pictures that reached it.
CopyAndWrite(outPicture, wr, ub, d) ==
  [CopyToFrame(outPicture, wr, ub, d) EXCEPT
     !.copied = IF interlaced
                THEN [copied EXCEPT !.fields = @ + 1]
                ELSE [copied EXCEPT !.frames = @ + 1]]

(***************************************************************************)
(* The picture cases.  rd is the state of du.stream() after the slices     *)
(* were read, wr the state of outStream after the write, ub what the use   *)
(* of an outFrame that owns nothing does to the process.                   *)
(***************************************************************************)
\* Lines 234-366: the body of case LD_PICTURE after the preamble block.
LdPictureBody(p, rd, wr, ub) ==
  LET d0 == [NoPass EXCEPT !.preamble = "lowDelay",
                           !.slice_bytes = [numerator |-> p.numerator,
                                            denominator |-> p.denominator]]
  IN
  IF ~CanDecode
  THEN Continue(d0)
  ELSE
    LET pictureHeight == PictureHeightOf(interlaced, height)
        pictureBytes == PictureBytesOf(interlaced, compressedBytes')
        picFormat == PictureFormat(pictureHeight, width, chromaFormat)
        d1 == [d0 EXCEPT !.sliceBudget = pictureBytes,
                         !.slices = IF rd THEN "lowDelay read"
                                          ELSE "lowDelay failed"]
        d2 == [d1 EXCEPT !.dequantiser = "inverse_quantise_transform"]
    IN IF SliceReadFailed(rd) THEN Continue(d1)
       ELSE IF output = INDICES THEN WriteDiagnostic(DiagnosticItem(INDICES, 1), wr, d1)
       ELSE IF output = QUANTISED THEN WriteDiagnostic(DiagnosticItem(QUANTISED, 4), wr, d1)
       ELSE IF output = TRANSFORM THEN WriteDiagnostic(DiagnosticItem(TRANSFORM, 4), wr, d2)
       ELSE CopyAndWrite(picFormat, wr, ub, [d2 EXCEPT !.decoded = TRUE])

\* Mutation of HqPictureBody: the check of du.stream() after the read of
\* the slices (lines 427-434) is left out of the HQ_PICTURE case alone.
HqPictureBodyUnchecked(p, rd, wr, ub) ==
  LET d0 == [NoPass EXCEPT !.preamble = "highQualityVBR"] IN
  IF ~CanDecode
  THEN Continue(d0)
  ELSE
    LET pictureHeight == PictureHeightOf(interlaced, height)
        picFormat == PictureFormat(pictureHeight, width, chromaFormat)
        d1 == [d0 EXCEPT !.slices = IF rd THEN "highQualityVBR read"
                                          ELSE "highQualityVBR failed"]
        d2 == [d1 EXCEPT !.dequantiser = "inverse_quantise_transform_np"]
    IN IF output = INDICES THEN WriteDiagnostic(DiagnosticItem(INDICES, 1), wr, d1)
       ELSE IF output = QUANTISED THEN WriteDiagnostic(DiagnosticItem(QUANTISED, 4), wr, d1)
       ELSE IF output = TRANSFORM THEN WriteDiagnostic(DiagnosticItem(TRANSFORM, 4), wr, d2)
       ELSE CopyAndWrite(picFormat, wr, ub, [d2 EXCEPT !.decoded = TRUE])

\* Lines 393-525: the body of case HQ_PICTURE after the preamble block.
HqPictureBody(p, rd, wr, ub) ==
  LET d0 == [NoPass EXCEPT !.preamble = "highQualityVBR"] IN
  IF ~CanDecode
  THEN Continue(d0)
  ELSE
    LET pictureHeight == PictureHeightOf(interlaced, height)
        picFormat == PictureFormat(pictureHeight, width, chromaFormat)
        d1 == [d0 EXCEPT !.slices = IF rd THEN "highQualityVBR read"
                                          ELSE "highQualityVBR failed"]
        d2 == [d1 EXCEPT !.dequantiser = "inverse_quantise_transform_np"]
    IN IF SliceReadFailed(rd) THEN Continue(d1)
       ELSE IF output = INDICES THEN WriteDiagnostic(DiagnosticItem(INDICES, 1), wr, d1)
       ELSE IF output = QUANTISED THEN WriteDiagnostic(DiagnosticItem(QUANTISED, 4), wr, d1)
       ELSE IF output = TRANSFORM THEN WriteDiagnostic(DiagnosticItem(TRANSFORM, 4), wr, d2)
       ELSE CopyAndWrite(picFormat, wr, ub, [d2 EXCEPT !.decoded = TRUE])

\* The variables a picture case leaves as the outcome r says.
Leave(r) ==
  /\ frame' = r.frame
  /\ pic' = r.pic
  /\ outFrame' = r.outFrame
  /\ outStream' = r.outStream
  /\ written' = r.written
  /\ pc' = r.pc
  /\ exitStatus' = r.exitStatus
  /\ did' = r.did
  /\ copied' = r.copied

\* Lines 211-232: the preamble block of case LD_PICTURE.
LdPreambleBlock(p) ==
  /\ ySlices' = p.slices_y
  /\ xSlices' = p.slices_x
  /\ waveletDepth' = p.depth
  /\ kernel' = p.wavelet_kernel
  /\ compressedBytes' = CompressedBytesOf(p)
  /\ UNCHANGED sliceScalar

\* Lines 369-391: the preamble block of case HQ_PICTURE.
HqPreambleBlock(p) ==
  /\ ySlices' = p.slices_y
  /\ xSlices' = p.slices_x
  /\ waveletDepth' = p.depth
  /\ kernel' = p.wavelet_kernel
  /\ sliceScalar' = p.slice_size_scalar
  /\ UNCHANGED compressedBytes

\* Lines 160-166: the stream is good and `inStream >> du` reads a data unit.
ReadUnit(type) ==
  /\ pc = "loop"
  /\ inStream
  /\ nUnits < MaxUnits
  /\ nUnits' = nUnits + 1
  /\ du' = [type |-> type]
  /\ UNCHANGED <<params, inStream, inBuffer>>

\* Lines 131-156: the state main sets up before the loop.
InitDecoder ==
  /\ verbose \in BOOLEAN
  /\ output \in Outputs
  /\ outStream = TRUE
  /\ written = <<>>
  /\ frame = 0
  /\ pic = 0
  /\ have_seq_hdr = FALSE
  /\ height = 0
  /\ width = 0
  /\ chromaFormat = UNKNOWN
  /\ bytes = 0
  /\ lumaDepth = 0
  /\ chromaDepth = 0
  /\ interlaced = FALSE
  /\ topFieldFirst = FALSE
  /\ kernel = "uninit"
  /\ waveletDepth = Uninit
  /\ ySlices = Uninit
  /\ xSlices = Uninit
  /\ compressedBytes = Uninit
  /\ sliceScalar = Uninit
  /\ outFrame = NullFrame
  /\ du = [type |-> "none"]
  /\ exitStatus = Running
  /\ nUnits = 0
  /\ did = NoPass
  /\ copied = [fields |-> 0, frames |-> 0]

\* The state at the first pass of the loop; the bytes are not followed.
Init ==
  /\ InitDecoder
  /\ inStream \in BOOLEAN    \* dataunitio::synchronise may find no prefix
  /\ inBuffer = NoBuffer
  /\ pc = "loop"


(***************************************************************************)
(* One action for each case of `switch (du.type)`, and two for the loop    *)
(* head.                                                                   *)
(***************************************************************************)
\* Mutation of SequenceHeaderCase: the header also drops the pending frame.
SequenceHeaderCaseRestarts(seq_hdr) ==
  /\ height' = seq_hdr.height
  /\ width' = seq_hdr.width
  /\ chromaFormat' = seq_hdr.chromaFormat
  /\ interlaced' = seq_hdr.interlace
  /\ topFieldFirst' = seq_hdr.topFieldFirst
  /\ lumaDepth' = seq_hdr.bitdepth
  /\ chromaDepth' = seq_hdr.bitdepth
  /\ bytes' = BytesOf(seq_hdr.bitdepth)
  /\ have_seq_hdr' = TRUE
  /\ pc' = "loop"
  /\ did' = NoPass
  /\ pic' = 0
  /\ outFrame' = NullFrame
  /\ UNCHANGED <<picParams, frame, outStream, written, exitStatus, copied>>

\* Lines 174-204: case SEQUENCE_HEADER.
SequenceHeaderCase(seq_hdr) ==
  /\ height' = seq_hdr.height
  /\ width' = seq_hdr.width
  /\ chromaFormat' = seq_hdr.chromaFormat
  /\ interlaced' = seq_hdr.interlace
  /\ topFieldFirst' = seq_hdr.topFieldFirst
  /\ lumaDepth' = seq_hdr.bitdepth
  /\ chromaDepth' = seq_hdr.bitdepth
  /\ bytes' = BytesOf(seq_hdr.bitdepth)
  /\ have_seq_hdr' = TRUE
  /\ pc' = "loop"
  /\ did' = NoPass
  /\ UNCHANGED <<picParams, assembly, outStream, written, exitStatus, copied>>

\* A SEQUENCE_HEADER data unit whose payload is one of headers.
SequenceHeaderFrom(headers) ==
  \E seq_hdr \in headers :
    /\ ReadUnit(SEQUENCE_HEADER)
    /\ SequenceHeaderCase(seq_hdr)

SequenceHeaderUnit == SequenceHeaderFrom(SequenceHeaders)

\* Lines 205-209 with verbose set: return EXIT_SUCCESS.
EndOfSequenceReturn ==
  /\ pc' = "exit"
  /\ exitStatus' = EXIT_SUCCESS
  /\ did' = NoPass
  /\ UNCHANGED <<seqState, picParams, assembly, outStream, written, copied>>

\* Lines 210-367: case LD_PICTURE, which is also where control goes from
\* case END_OF_SEQUENCE when the return at line 208 is not taken.
LdPictureCase(preambles) ==
  \E p \in preambles :
    /\ LdPreambleBlock(p)
    /\ \E r \in {LdPictureBody(p, rd, wr, ub) :
                  rd \in BOOLEAN, wr \in BOOLEAN, ub \in NullDereference} :
         Leave(r)
    /\ UNCHANGED seqState

\* Lines 205-209: case END_OF_SEQUENCE has no break of its own.
EndOfSequenceUnit ==
  /\ ReadUnit(END_OF_SEQUENCE)
  /\ IF EndOfSequenceReturns THEN EndOfSequenceReturn
                             ELSE LdPictureCase(LdPreambles)

LdPictureUnit ==
  /\ ReadUnit(LD_PICTURE)
  /\ LdPictureCase(LdPreambles)

\* Lines 368-526: case HQ_PICTURE.
HqPictureCase ==
  \E p \in HqPreambles :
    /\ HqPreambleBlock(p)
    /\ \E r \in {HqPictureBody(p, rd, wr, ub) :
                  rd \in BOOLEAN, wr \in BOOLEAN, ub \in NullDereference} :
         Leave(r)
    /\ UNCHANGED seqState

HqPictureUnit ==
  /\ ReadUnit(HQ_PICTURE)
  /\ HqPictureCase

\* Mutation of DefaultCase: the skipped data unit restarts the frame.
DefaultCaseResets ==
  /\ pc' = "loop"
  /\ did' = NoPass
  /\ pic' = 0
  /\ UNCHANGED <<seqState, picParams, frame, outFrame, outStream, written,
                 exitStatus, copied>>

\* Lines 527-528: default: continue.
DefaultCase ==
  /\ pc' = "loop"
  /\ did' = NoPass
  /\ UNCHANGED <<seqState, picParams, assembly, outStream, written, exitStatus,
                 copied>>

SkippedUnit ==
  \E type \in {AUX_DATA, PADDING, UNKNOWN_DATA_UNIT} :
    /\ ReadUnit(type)
    /\ DefaultCase

\* Lines 165-166 at the end of the input: `inStream >> du` fails and leaves
\* the data unit as constructed, of no known type; the default case runs.
ReadFails ==
  /\ pc = "loop"
  /\ inStream
  /\ inStream' = FALSE
  /\ du' = [type |-> UNKNOWN_DATA_UNIT]
  /\ DefaultCase
  /\ UNCHANGED <<params, nUnits, inBuffer>>

\* Lines 160-163 and 540-541: the stream is not good; break, and main
\* returns EXIT_FAILURE.
LoopBreak ==
  /\ pc = "loop"
  /\ ~inStream
  /\ pc' = "exit"
  /\ exitStatus' = EXIT_FAILURE
  /\ UNCHANGED <<params, inStream, outStream, written, seqState, picParams,
                 assembly, du, inBuffer, nUnits, did, copied>>

Next ==
  \/ SequenceHeaderUnit
  \/ EndOfSequenceUnit
  \/ LdPictureUnit
  \/ HqPictureUnit
  \/ SkippedUnit
  \/ ReadFails
  \/ LoopBreak

Spec == Init /\ [][Next]_vars

(***************************************************************************)
(* The same loop on streams of SEQUENCE_HEADER and LD_PICTURE data units   *)
(* whose payloads range over the wider numeric domains: every bit depth    *)
(* with decoded output (SpecBitDepth), every slice_bytes fraction with     *)
(* the quantisation indices as output (SpecSliceBytes).                    *)
(***************************************************************************)
InitBitDepth ==
  /\ Init
  /\ verbose
  /\ output = DECODED

BitDepthHeaderUnit == SequenceHeaderFrom(BitDepthHeaders)

NextBitDepth ==
  \/ BitDepthHeaderUnit
  \/ LdPictureUnit
  \/ ReadFails
  \/ LoopBreak

SpecBitDepth == InitBitDepth /\ [][NextBitDepth]_vars

InitSliceBytes ==
  /\ Init
  /\ verbose
  /\ output = INDICES

SliceBytesHeaderUnit == SequenceHeaderFrom(SliceBytesHeaders)

SliceBytesPictureUnit ==
  /\ ReadUnit(LD_PICTURE)
  /\ LdPictureCase(SliceBytesPreambles)

NextSliceBytes ==
  \/ SliceBytesHeaderUnit
  \/ SliceBytesPictureUnit
  \/ ReadFails
  \/ LoopBreak

SpecSliceBytes == InitSliceBytes /\ [][NextSliceBytes]_vars

\* Every bit depth with decoded output, pictures of both profiles.
NextClip ==
  \/ BitDepthHeaderUnit
  \/ LdPictureUnit
  \/ HqPictureUnit
  \/ ReadFails
  \/ LoopBreak

SpecClip == InitBitDepth /\ [][NextClip]_vars

(***************************************************************************)
(* The input as bytes.  dataunitio::synchronise and the extraction of a    *)
(* DataUnit are library code; they are modelled from the description of    *)
(* the framing: a data unit starts with the 4-byte parse-info prefix and   *)
(* its parse code, synchronise scans to the first prefix, and the read of  *)
(* a data unit finds the next prefix and takes the unit that starts there. *)
(* The parse code stands for the whole rest of the data unit.              *)
(***************************************************************************)
PARSE_INFO_PREFIX == <<"0x42", "0x42", "0x43", "0x44">>

\* The bytes in front of the stream: those of the prefix and one other.
JunkBytes == {"0x42", "0x43", "0x44", "0x00"}

StartsWithPrefix(b) == Len(b) >= 4 /\ SubSeq(b, 1, 4) = PARSE_INFO_PREFIX

ContainsPrefix(b) ==
  \E i \in 1..(Len(b) - 3) : SubSeq(b, i, i + 3) = PARSE_INFO_PREFIX

\* Mutation of synchronise: no byte is skipped.
synchroniseNoScan(b) == b

RECURSIVE synchronise(_)
\* The bytes from the first parse-info prefix on; none if there is no prefix.
synchronise(b) ==
  IF b = <<>> THEN <<>>
  ELSE IF StartsWithPrefix(b) THEN b
  ELSE synchronise(Tail(b))

RECURSIVE StreamOf(_)
\* The bytes of the data units of the given types.
StreamOf(types) ==
  IF types = <<>> THEN <<>>
  ELSE PARSE_INFO_PREFIX \o <<Head(types)>> \o StreamOf(Tail(types))

RECURSIVE UnitTypes(_)
\* The types of the data units that start at the read position, one
\* directly after the other.
UnitTypes(b) ==
  IF StartsWithPrefix(b) /\ Len(b) >= 5
  THEN <<b[5]>> \o UnitTypes(SubSeq(b, 6, Len(b)))
  ELSE <<>>

SyncTypes == {SEQUENCE_HEADER, HQ_PICTURE, PADDING, END_OF_SEQUENCE}

ValidStreams ==
  {StreamOf(types) : types \in UNION {[1..n -> SyncTypes] : n \in 1..MaxSyncUnits}}

\* Bytes that do not contain the prefix.
Junk ==
  {j \in UNION {[1..n -> JunkBytes] : n \in 0..MaxJunk} : ~ContainsPrefix(j)}

\* The junk ends in a proper part of the prefix.
EndsInPartOfPrefix(j) ==
  \E k \in 1..3 : Len(j) >= k
                  /\ SubSeq(j, Len(j) - k + 1, Len(j)) = SubSeq(PARSE_INFO_PREFIX, 1, k)

InitSync ==
  /\ InitDecoder
  /\ output = DECODED
  /\ inStream = TRUE
  /\ pc = "sync"
  /\ \E j \in Junk, v \in ValidStreams :
       inBuffer = [NoBuffer EXCEPT !.rest = j \o v, !.valid = v, !.junk = j]

\* Line 136: inStream >> dataunitio::synchronise, once, before the loop.
Synchronise ==
  /\ pc = "sync"
  /\ LET s == synchronise(inBuffer.rest) IN
       /\ inStream' = (s # <<>>)
       /\ inBuffer' = [inBuffer EXCEPT
                         !.rest = s, !.junk = <<>>,
                         !.skipped = Len(inBuffer.rest) - Len(s),
                         !.overlap = EndsInPartOfPrefix(inBuffer.junk)]
  /\ pc' = "loop"
  /\ UNCHANGED <<params, outStream, written, seqState, picParams, assembly, du,
                 exitStatus, nUnits, did, copied>>

\* Lines 160-166 on the bytes: the stream is good and `inStream >> du`
\* reads the data unit at the next prefix, which is of the given type.
ReadFromBuffer(type) ==
  /\ pc = "loop"
  /\ inStream
  /\ LET s == synchronise(inBuffer.rest) IN
       /\ StartsWithPrefix(s)
       /\ Len(s) >= 5
       /\ s[5] = type
       /\ inBuffer' = [inBuffer EXCEPT !.rest = SubSeq(s, 6, Len(s)),
                                       !.dispatched = Append(@, type)]
  /\ nUnits' = nUnits + 1
  /\ du' = [type |-> type]
  /\ UNCHANGED <<params, inStream>>

SyncSequenceHeaderUnit ==
  \E seq_hdr \in SliceBytesHeaders :
    /\ ReadFromBuffer(SEQUENCE_HEADER)
    /\ SequenceHeaderCase(seq_hdr)

SyncEndOfSequenceUnit ==
  /\ ReadFromBuffer(END_OF_SEQUENCE)
  /\ IF EndOfSequenceReturns THEN EndOfSequenceReturn
                             ELSE LdPictureCase(LdPreambles)

SyncHqPictureUnit ==
  /\ ReadFromBuffer(HQ_PICTURE)
  /\ HqPictureCase

SyncSkippedUnit ==
  \E type \in {AUX_DATA, PADDING, UNKNOWN_DATA_UNIT} :
    /\ ReadFromBuffer(type)
    /\ DefaultCase

\* Lines 165-166 where no data unit is left: the read fails.
BufferReadFails ==
  /\ pc = "loop"
  /\ inStream
  /\ LET s == synchronise(inBuffer.rest) IN ~(StartsWithPrefix(s) /\ Len(s) >= 5)
  /\ inStream' = FALSE
  /\ inBuffer' = [inBuffer EXCEPT !.rest = <<>>]
  /\ du' = [type |-> UNKNOWN_DATA_UNIT]
  /\ DefaultCase
  /\ UNCHANGED <<params, nUnits>>

NextSync ==
  \/ Synchronise
  \/ SyncSequenceHeaderUnit
  \/ SyncEndOfSequenceUnit
  \/ SyncHqPictureUnit
  \/ SyncSkippedUnit
  \/ BufferReadFails
  \/ LoopBreak

SpecSync == InitSync /\ [][NextSync]_vars

(***************************************************************************)
(* Vocabulary of the properties.                                           *)
(***************************************************************************)
PictureUnits == {LD_PICTURE, HQ_PICTURE}

\* This step is a pass of the loop that read a data unit of one of types.
UnitPass(types) == nUnits' = nUnits + 1 /\ du'.type \in types

SlicesRead(d) == d.slices \in {"lowDelay read", "highQualityVBR read"}
SlicesFailed(d) == d.slices \in {"lowDelay failed", "highQualityVBR failed"}

\* What an outcome of a picture case leaves in the state both profiles share.
SharedOutcome(r) ==
  [pic |-> r.pic, frame |-> r.frame, outFrame |-> r.outFrame,
   written |-> r.written, outStream |-> r.outStream, pc |-> r.pc,
   exitStatus |-> r.exitStatus]

\* The picture the current sequence state makes of a data unit.
CurrentPicture ==
  PictureFormat(IF interlaced THEN height \div 2 ELSE height, width, chromaFormat)

(***************************************************************************)
(* C1.  A pass that reads an END_OF_SEQUENCE data unit ends the run with   *)
(* EXIT_SUCCESS, parses no picture preamble, reads no slices, writes       *)
(* nothing and leaves pic, frame and outFrame alone, verbose or not.       *)
(***************************************************************************)
C1_EndOfSequenceTerminates ==
  [][UnitPass({END_OF_SEQUENCE}) =>
       /\ pc' = "exit"
       /\ exitStatus' = EXIT_SUCCESS
       /\ did'.preamble = "none"
       /\ did'.slices = "none"
       /\ written' = written
       /\ UNCHANGED assembly]_vars

(***************************************************************************)
(* C2.  Progressive sequence, decoded output: a pass that reads an         *)
(* LD_PICTURE or HQ_PICTURE after a SEQUENCE_HEADER, reads its slices and  *)
(* leaves outStream good appends exactly one decoded Frame to the output   *)
(* and adds one to frame; the first picture of the run is no exception.    *)
(***************************************************************************)
C2_ProgressivePictureWritesFrame ==
  [][(/\ UnitPass(PictureUnits)
      /\ have_seq_hdr
      /\ ~interlaced
      /\ output = DECODED
      /\ SlicesRead(did')
      /\ outStream') =>
       /\ Len(written') = Len(written) + 1
       /\ SubSeq(written', 1, Len(written)) = written
       /\ written'[Len(written')].kind = DECODED
       /\ frame' = frame + 1]_vars

(***************************************************************************)
(* C3.  A pass that reads an LD_PICTURE or HQ_PICTURE while have_seq_hdr   *)
(* is false writes nothing, leaves pic, frame and outFrame alone, leaves   *)
(* have_seq_hdr false and goes back to the loop head.                      *)
(***************************************************************************)
C3_PictureBeforeHeaderSkipped ==
  [][(UnitPass(PictureUnits) /\ ~have_seq_hdr) =>
       /\ written' = written
       /\ outStream' = outStream
       /\ UNCHANGED assembly
       /\ ~have_seq_hdr'
       /\ pc' = "loop"
       /\ exitStatus' = Running]_vars

\* A picture of either profile was skipped for want of a sequence header
\* after its preamble was parsed, and the loop is about to read on.
C3_Witness ==
  /\ du.type \in PictureUnits
  /\ did.preamble # "none"
  /\ ~have_seq_hdr
  /\ pc = "loop"
  /\ inStream
  /\ nUnits >= 2

(***************************************************************************)
(* C4.  Interlaced sequence, decoded output.  A decoded picture that finds *)
(* pic = 0 is stored as the first field of a new Frame and writes nothing; *)
(* one that finds pic = 1 is stored as the second field of that Frame,     *)
(* exactly one Frame is written and pic is 0 again.  While every decoded   *)
(* picture was a field, the fields decoded are twice the frames written    *)
(* plus pic, so 2k decoded pictures have written k frames.                 *)
(***************************************************************************)
C4_FieldPairing ==
  /\ [](output = DECODED /\ copied.frames = 0 =>
          /\ pic \in {0, 1}
          /\ copied.fields = 2 * Len(written) + pic
          /\ pic = 1 => outFrame.allocated /\ outFrame.first # NoPicture
                          /\ outFrame.second = NoPicture)
  /\ [][(/\ nUnits' = nUnits + 1
         /\ interlaced
         /\ output = DECODED
         /\ did'.decoded) =>
          IF pic = 0
          THEN /\ did'.fields = "first"
               /\ pic' = 1
               /\ written' = written
               /\ frame' = frame
               /\ outFrame'.allocated
               /\ outFrame'.first = CurrentPicture
          ELSE /\ did'.fields = "second"
               /\ pic' = 0
               /\ written' = Append(written, [kind |-> DECODED, wordWidth |-> bytes])
               /\ outFrame'.first = outFrame.first
               /\ outFrame'.second = CurrentPicture
               /\ outStream' => frame' = frame + 1]_vars

\* Two fields were decoded and the one frame they make was written.
C4_Witness ==
  /\ output = DECODED
  /\ interlaced
  /\ copied = [fields |-> 2, frames |-> 0]
  /\ did.fields = "second"
  /\ Len(written) = 1
  /\ frame = 1
  /\ pic = 0

(***************************************************************************)
(* C5.  A decoded picture that finds a first field pending (pic = 1) and   *)
(* whose format disagrees with that of the first field (a SEQUENCE_HEADER  *)
(* in between changed it) drops the pending Frame and restarts from Empty: *)
(* nothing is written and the picture is not stored as the second field of *)
(* the pending Frame.  Stated for the second field of an interlaced        *)
(* sequence, in runs with verbose set (where every decoded picture is a    *)
(* picture data unit) and for a write that leaves outStream good.          *)
(***************************************************************************)
C5_MismatchDropsPendingFrame ==
  [][(/\ UnitPass(PictureUnits)
      /\ verbose
      /\ output = DECODED
      /\ did'.decoded
      /\ outStream'
      /\ pic = 1
      /\ interlaced
      /\ outFrame.first # CurrentPicture) =>
       /\ written' = written
       /\ ~(outFrame'.first = outFrame.first /\ outFrame'.second = CurrentPicture)
       /\ pc' = "loop"]_vars

(***************************************************************************)
(* C6.  After a SEQUENCE_HEADER the byte width of the samples of a decoded *)
(* frame is 1 for a bit depth up to 8 and 2 for a bit depth of 9 to 16.    *)
(***************************************************************************)
C6_ByteWidthIsCeiling ==
  /\ have_seq_hdr /\ lumaDepth <= 16 =>
       bytes = (IF lumaDepth <= 8 THEN 1 ELSE 2)
  /\ did.wrote = 1 /\ lumaDepth <= 16 =>
       written[Len(written)].wordWidth = (IF lumaDepth <= 8 THEN 1 ELSE 2)

(***************************************************************************)
(* C7.  The byte budget handed to slice_bytes for an LD picture is the     *)
(* ceiling of numerator * slices_y * slices_x / denominator, progressive   *)
(* and interlaced alike.                                                   *)
(***************************************************************************)
C7_BudgetIsCeiling ==
  did.sliceBudget # Uninit =>
    LET product == did.slice_bytes.numerator * ySlices * xSlices
        denominator == did.slice_bytes.denominator
    IN /\ did.sliceBudget * denominator >= product
       /\ (did.sliceBudget - 1) * denominator < product

\* C7 as amended.  The budget is the quotient rounded down, and for an
\* interlaced sequence half of that quotient, rounded down again.
C7_BudgetIsFloor ==
  did.sliceBudget # Uninit =>
    LET product == did.slice_bytes.numerator * ySlices * xSlices
        denominator == did.slice_bytes.denominator
    IN /\ compressedBytes * denominator <= product
       /\ product < (compressedBytes + 1) * denominator
       /\ IF interlaced
          THEN /\ 2 * did.sliceBudget <= compressedBytes
               /\ compressedBytes < 2 * did.sliceBudget + 2
          ELSE did.sliceBudget = compressedBytes

\* An interlaced LD picture whose fraction is not whole and whose quotient
\* is odd: both roundings lose something.
C7_Witness ==
  /\ did.sliceBudget # Uninit
  /\ did.slices = "lowDelay read"
  /\ interlaced
  /\ (did.slice_bytes.numerator * ySlices * xSlices) % did.slice_bytes.denominator # 0
  /\ compressedBytes % 2 = 1
  /\ 2 * did.sliceBudget < compressedBytes

(***************************************************************************)
(* C8.  With INDICES, QUANTISED or TRANSFORM as output, a picture whose    *)
(* slices were read appends exactly one item of that kind to the output    *)
(* and leaves pic, frame and outFrame alone; no decoded frame is ever      *)
(* written and no field is ever accumulated.                               *)
(***************************************************************************)
C8_DiagnosticOutput ==
  /\ [](output # DECODED =>
          /\ pic = 0 /\ frame = 0 /\ outFrame = NullFrame
          /\ \A i \in 1..Len(written) : written[i].kind = output)
  /\ [][(UnitPass(PictureUnits) /\ output # DECODED /\ SlicesRead(did')) =>
          /\ Len(written') = Len(written) + 1
          /\ SubSeq(written', 1, Len(written)) = written
          /\ written'[Len(written')].kind = output
          /\ UNCHANGED assembly]_vars

\* An interlaced sequence in a diagnostic mode: pictures of both profiles
\* were read and each wrote its item, with no field pending.
C8_Witness ==
  /\ output = TRANSFORM
  /\ interlaced
  /\ du.type = HQ_PICTURE
  /\ did.wrote = 1
  /\ Len(written) = 2
  /\ pic = 0

(***************************************************************************)
(* C9.  A pass that reads an AUX_DATA, PADDING or unrecognised data unit   *)
(* changes neither the sequence state, have_seq_hdr, pic, frame, outFrame  *)
(* nor the output, and goes back to the loop head.                         *)
(***************************************************************************)
C9_OtherUnitsSkipped ==
  [][UnitPass({AUX_DATA, PADDING, UNKNOWN_DATA_UNIT}) =>
       /\ UNCHANGED <<seqState, assembly, written, outStream>>
       /\ pc' = "loop"
       /\ exitStatus' = Running]_vars

\* A data unit was skipped between the two fields of a frame.
C9_Witness ==
  /\ du.type \in {AUX_DATA, PADDING, UNKNOWN_DATA_UNIT}
  /\ nUnits = 3
  /\ have_seq_hdr
  /\ pic = 1
  /\ outFrame.allocated
  /\ pc = "loop"

(***************************************************************************)
(* C10.  A pass in which the read of the slices fails writes nothing,      *)
(* leaves pic, frame and outFrame alone and goes back to the loop head;    *)
(* the run goes on.                                                        *)
(***************************************************************************)
C10_FailedReadDropsPicture ==
  [][(nUnits' = nUnits + 1 /\ SlicesFailed(did')) =>
       /\ written' = written
       /\ outStream' = outStream
       /\ UNCHANGED assembly
       /\ pc' = "loop"
       /\ exitStatus' = Running]_vars

\* The second field of a frame failed to read: the first field is still
\* pending and the loop is about to read on.
C10_Witness ==
  /\ SlicesFailed(did)
  /\ du.type \in PictureUnits
  /\ output = DECODED
  /\ pic = 1
  /\ pc = "loop"
  /\ inStream

(***************************************************************************)
(* C11.  A write that leaves outStream failed ends the run at once with    *)
(* EXIT_FAILURE, whichever of INDICES, QUANTISED, TRANSFORM and DECODED    *)
(* is the output: outStream is failed only in a run that has ended so, the *)
(* pass that made the failing write is the last one, and no data unit is   *)
(* read after it.                                                          *)
(***************************************************************************)
C11_WriteFailureEndsRun ==
  /\ [](~outStream => pc = "exit" /\ exitStatus = EXIT_FAILURE /\ did.wrote = 1)
  /\ [][(nUnits' = nUnits + 1 /\ did'.wrote = 1 /\ ~outStream') =>
          pc' = "exit" /\ exitStatus' = EXIT_FAILURE]_vars
  /\ [][~outStream => nUnits' = nUnits /\ du' = du /\ written' = written]_vars

\* The write of the first frame of a run failed: the second field of an
\* interlaced sequence completed the frame, frame is still 0 and the run
\* has ended with input left to read.
C11_Witness ==
  /\ output = DECODED
  /\ ~outStream
  /\ did.wrote = 1
  /\ did.fields = "second"
  /\ Len(written) = 1
  /\ frame = 0
  /\ inStream
  /\ pc = "exit"
  /\ exitStatus = EXIT_FAILURE

(***************************************************************************)
(* C12.  A decoded Frame is written as clipped to the range of the bit     *)
(* depth d of the current sequence header: [-2^(d-1), 2^(d-1)-1] for luma  *)
(* and for chroma, and for an interlaced sequence for the frame that holds *)
(* both fields.                                                            *)
(***************************************************************************)
C12_WrittenFrameIsClipped ==
  (output = DECODED /\ did.wrote = 1) =>
    /\ outFrame.allocated
    /\ lumaDepth >= 1
    /\ chromaDepth = lumaDepth
    /\ outFrame.clip = [yMin |-> -(2 ^ (lumaDepth - 1)),
                        yMax |-> 2 ^ (lumaDepth - 1) - 1,
                        uvMin |-> -(2 ^ (lumaDepth - 1)),
                        uvMax |-> 2 ^ (lumaDepth - 1) - 1]
    /\ interlaced => outFrame.first # NoPicture /\ outFrame.second # NoPicture

\* The two fields of a 10 bit interlaced sequence, one of each profile, were
\* written as one frame clipped to [-512, 511].
C12_Witness ==
  /\ output = DECODED
  /\ did.wrote = 1
  /\ did.fields = "second"
  /\ du.type = HQ_PICTURE
  /\ interlaced
  /\ lumaDepth = 10
  /\ outFrame.clip.yMin = -512
  /\ outFrame.clip.uvMax = 511
  /\ Len(written) = 1

(***************************************************************************)
(* C13.  Bytes without the sync prefix in front of a valid stream change   *)
(* nothing: synchronise, called once before the first read, leaves the     *)
(* decoder at the first byte of the valid stream with the stream good, as  *)
(* it does with no byte in front; and the data units read are, in order,   *)
(* those of the valid stream, each read taking the first one yet unread.   *)
(***************************************************************************)
C13_JunkBeforeStreamIsSkipped ==
  /\ [](pc # "sync" =>
          /\ UnitTypes(inBuffer.valid) = inBuffer.dispatched \o UnitTypes(inBuffer.rest)
          /\ nUnits = Len(inBuffer.dispatched)
          /\ nUnits = 0 /\ du.type = "none" =>
               inBuffer.rest = inBuffer.valid /\ inStream)
  /\ [][pc = "sync" =>
          /\ inBuffer'.rest = inBuffer.valid
          /\ inBuffer'.skipped = Len(inBuffer.junk)
          /\ UNCHANGED <<written, outStream, seqState, assembly, nUnits>>]_vars
  /\ [][nUnits' = nUnits + 1 =>
          du'.type = Head(UnitTypes(inBuffer.rest))]_vars

\* Four bytes of junk that end in the first three bytes of the prefix were
\* skipped, and both data units of the stream behind them were read.
C13_Witness ==
  /\ inBuffer.skipped = 4
  /\ inBuffer.overlap
  /\ Len(inBuffer.dispatched) = 2
  /\ inBuffer.dispatched = UnitTypes(inBuffer.valid)
  /\ du.type = HQ_PICTURE
  /\ have_seq_hdr
  /\ pc = "loop"

(***************************************************************************)
(* C14.  The sequence state (height, width, chromaFormat, interlaced,      *)
(* topFieldFirst, lumaDepth, chromaDepth, bytes, have_seq_hdr) changes     *)
(* only in a pass that reads a SEQUENCE_HEADER.  Such a pass sets every    *)
(* field from the one header it read and sets have_seq_hdr, and leaves     *)
(* pic, frame, outFrame and the output alone.  have_seq_hdr never goes     *)
(* back to false, and a pass that reads any other data unit leaves the     *)
(* sequence state as it was.                                               *)
(***************************************************************************)
C14_SequenceStateFrame ==
  [][/\ seqState' # seqState => UnitPass({SEQUENCE_HEADER})
     /\ have_seq_hdr => have_seq_hdr'
     /\ UnitPass({SEQUENCE_HEADER}) =>
          /\ have_seq_hdr'
          /\ \E h \in SequenceHeaders :
               /\ height' = h.height
               /\ width' = h.width
               /\ chromaFormat' = h.chromaFormat
               /\ interlaced' = h.interlace
               /\ topFieldFirst' = h.topFieldFirst
               /\ lumaDepth' = h.bitdepth
               /\ chromaDepth' = h.bitdepth
               /\ bytes' = (IF h.bitdepth = 8 THEN 1 ELSE 2)
          /\ UNCHANGED <<assembly, written, outStream>>
          /\ pc' = "loop"
     /\ UnitPass({END_OF_SEQUENCE, LD_PICTURE, HQ_PICTURE, AUX_DATA, PADDING,
                  UNKNOWN_DATA_UNIT}) => UNCHANGED seqState]_vars

\* A SEQUENCE_HEADER read between the two fields of a frame changed the
\* frame format: the first field is still pending in a frame of the old one.
C14_Witness ==
  /\ du.type = SEQUENCE_HEADER
  /\ nUnits = 3
  /\ pic = 1
  /\ outFrame.allocated
  /\ outFrame.first # NoPicture
  /\ outFrame.format # PictureFormat(height, width, chromaFormat)
  /\ have_seq_hdr
  /\ pc = "loop"

(***************************************************************************)
(* C15.  The dequantiser goes by the type of the data unit: a pass that    *)
(* inverse-quantises has read an LD_PICTURE and used                       *)
(* inverse_quantise_transform, or has read an HQ_PICTURE and used          *)
(* inverse_quantise_transform_np; a data unit of any other type is never   *)
(* inverse-quantised.                                                      *)
(***************************************************************************)
C15_DequantiserByType ==
  did.dequantiser # "none" =>
    \/ du.type = LD_PICTURE /\ did.dequantiser = "inverse_quantise_transform"
    \/ du.type = HQ_PICTURE /\ did.dequantiser = "inverse_quantise_transform_np"

(***************************************************************************)
(* C16.  Every run ends, and a run whose writes all went well ends in one  *)
(* of two ways: main returns EXIT_SUCCESS from the pass that read an       *)
(* END_OF_SEQUENCE, or the loop is left at its head with the input stream  *)
(* failed and main returns EXIT_FAILURE.  Until then no pass is stuck:     *)
(* every pass that does not end the run is back at the loop head, where    *)
(* the stream check or a read can run.                                     *)
(***************************************************************************)
C16_LoopTerminates ==
  /\ pc = "loop" => exitStatus = Running /\ nUnits <= MaxUnits
  /\ (pc = "exit" /\ outStream) =>
       \/ exitStatus = EXIT_SUCCESS /\ du.type = END_OF_SEQUENCE
       \/ exitStatus = EXIT_FAILURE /\ ~inStream

(***************************************************************************)
(* C17.  Whenever the pass of an LD_PICTURE or HQ_PICTURE uses outFrame    *)
(* for a decoded picture (as the second field of an interlaced sequence,   *)
(* or as the frame of a progressive one), outFrame owns an allocated       *)
(* Frame, so no such pass ends the run by the use of an outFrame that owns *)
(* nothing; whatever the order of the data units.                          *)
(***************************************************************************)
C17_OutFrameAllocatedWhenUsed ==
  /\ [](du.type \in PictureUnits => exitStatus \notin NullDereference)
  /\ [][(/\ UnitPass(PictureUnits)
         /\ did'.decoded
         /\ ~(interlaced /\ pic = 0)) => outFrame.allocated]_vars

(***************************************************************************)
(* C18.  pic is 0 or 1.  It goes from 0 to 1 in exactly the passes that    *)
(* store a first field in a new Frame and from 1 to 0 in exactly the       *)
(* passes that store a second field, so pic = 1 exactly when a first field *)
(* has been stored and no second field has completed it since.  The Frame  *)
(* of a first field is allocated with the height, width, chromaFormat and  *)
(* topFieldFirst of the sequence state of that pass, and while pic stays 1 *)
(* outFrame keeps that allocation.                                         *)
(***************************************************************************)
C18_PicTracksPendingField ==
  /\ [](/\ pic \in {0, 1}
        /\ pic = 1 => outFrame.allocated /\ outFrame.interlaced)
  /\ [][/\ (pic = 0 /\ pic' = 1) <=> (nUnits' = nUnits + 1 /\ did'.fields = "first")
        /\ (pic = 1 /\ pic' = 0) <=> (nUnits' = nUnits + 1 /\ did'.fields = "second")
        /\ (nUnits' = nUnits + 1 /\ did'.fields = "first") =>
             /\ outFrame'.allocated
             /\ outFrame'.format = PictureFormat(height, width, chromaFormat)
             /\ outFrame'.topFieldFirst = topFieldFirst
             /\ outFrame'.first = CurrentPicture
        /\ (pic = 1 /\ pic' = 1) =>
             /\ outFrame'.allocated
             /\ outFrame'.format = outFrame.format
             /\ outFrame'.topFieldFirst = outFrame.topFieldFirst]_vars

\* A first field is pending in a frame of the format and field order of the
\* sequence header before the last one, which changed both.
C18_Witness ==
  /\ pic = 1
  /\ interlaced
  /\ outFrame.allocated
  /\ outFrame.format.height # height
  /\ outFrame.topFieldFirst # topFieldFirst
  /\ outFrame.second = NoPicture
  /\ nUnits = 3
  /\ pc = "loop"

(***************************************************************************)
(* C19.  frame is the number of decoded Frames written with outStream left *)
(* good: 0 in the diagnostic modes, and with decoded output the number of  *)
(* items written, less the last one if its write failed.  frame changes    *)
(* only by one, in a pass that wrote a decoded Frame and left outStream    *)
(* good; a skipped picture, a stored first field and a diagnostic write    *)
(* leave it alone.                                                         *)
(***************************************************************************)
C19_FrameCountsWrittenFrames ==
  /\ [](frame = IF output = DECODED
                THEN Len(written) - (IF outStream THEN 0 ELSE 1)
                ELSE 0)
  /\ [][frame' # frame =>
          /\ frame' = frame + 1
          /\ nUnits' = nUnits + 1
          /\ output = DECODED
          /\ did'.decoded
          /\ did'.wrote = 1
          /\ did'.fields \in {"second", "frame"}
          /\ written' = Append(written, [kind |-> DECODED, wordWidth |-> bytes])
          /\ outStream']_vars

\* One frame was written and counted; the first field stored after it
\* left frame at 1.
C19_Witness ==
  /\ output = DECODED
  /\ frame = 1
  /\ Len(written) = 1
  /\ did.fields = "first"
  /\ pic = 1
  /\ nUnits = 4
  /\ outStream

(***************************************************************************)
(* C20.  From every state in which a picture data unit is read, and for    *)
(* every outcome of the slice read and of the write, the LD_PICTURE case   *)
(* and the HQ_PICTURE case leave the same pic, frame and outFrame, the     *)
(* same items written and state of outStream, and both go on or both end   *)
(* the run with the same status, whatever their preambles; what differs is *)
(* the preamble parsed, the slice reader and the dequantiser.  So the      *)
(* second field of a frame may be of the other profile than the first.     *)
(***************************************************************************)
C20_ProfilesAgreeOnSharedState ==
  [][UnitPass(PictureUnits) =>
       \A both \in {<<LdPictureBody(pl, rd, wr, ub), HqPictureBody(ph, rd, wr, ub)>> :
                     pl \in LdPreambles, ph \in HqPreambles,
                     rd \in BOOLEAN, wr \in BOOLEAN, ub \in NullDereference} :
         LET ld == both[1].did
             hq == both[2].did
         IN /\ SharedOutcome(both[1]) = SharedOutcome(both[2])
            /\ ld.decoded = hq.decoded
            /\ ld.wrote = hq.wrote
            /\ ld.fields = hq.fields
            /\ SlicesRead(ld) = SlicesRead(hq)
            /\ ld.preamble = "lowDelay" /\ hq.preamble = "highQualityVBR"
            /\ ld.dequantiser \in {"none", "inverse_quantise_transform"}
            /\ hq.dequantiser \in {"none", "inverse_quantise_transform_np"}
            /\ (ld.dequantiser = "none") = (hq.dequantiser = "none")]_vars

\* The first field of a frame came from an LD_PICTURE and the second from
\* an HQ_PICTURE; the frame they make was written.
C20_Witness ==
  /\ verbose
  /\ output = DECODED
  /\ nUnits = 3
  /\ du.type = HQ_PICTURE
  /\ did.fields = "second"
  /\ compressedBytes # Uninit
  /\ sliceScalar # Uninit
  /\ frame = 1
  /\ pic = 0

====
